---- MODULE Spec2Model ----
(***************************************************************************)
(* git-search (src/main.go): a command-line client that turns its options  *)
(* into a GitHub repository-search query string, issues one GET and prints *)
(* the decoded items through a tabwriter.                                   *)
(*                                                                         *)
(* Go strings are TLA+ strings; Len, \o and SubSeq act on them character   *)
(* by character.  A Go map is a function whose DOMAIN is the set of keys;  *)
(* `range` over a map visits the keys in an order the language leaves      *)
(* unspecified, modelled as a free choice among all orders.                *)
(***************************************************************************)
EXTENDS Integers, Sequences, FiniteSets, TLC

VARIABLES
    pc,        \* position of exec: "parse", "request", "decode", "render", "exit"
    opts,      \* the options struct (main.go 15-37)
    requests,  \* the URIs handed to http.Get, in order
    body,      \* res.Body: "none", "open" or "closed"
    r,         \* response.Items after a successful decode
    idx,       \* position of the range over r.Items
    w,         \* the lines buffered in the tabwriter
    stdout,    \* lines written to os.Stdout
    stderr,    \* lines written to os.Stderr
    exit,      \* << >> while exec runs, <<status>> once it has returned
    out        \* result of the latest queryString call (QuerySpec)

vars == <<pc, opts, requests, body, r, idx, w, stdout, stderr, exit, out>>

(***************************************************************************)
(* Bounds.                                                                 *)
(***************************************************************************)
\* options given a non-default value on the command line of an exec run
MaxArgs == 1
\* option fields set to a non-default value in a queryString call
MaxSupplied == 3
\* items in a decoded response
MaxItems == 2

(***************************************************************************)
(* String helpers.                                                         *)
(***************************************************************************)
StartsWith(s, p) == Len(s) >= Len(p) /\ SubSeq(s, 1, Len(p)) = p

EndsWith(s, p) == Len(s) >= Len(p) /\ SubSeq(s, Len(s) - Len(p) + 1, Len(s)) = p

\* number of (possibly overlapping) occurrences of sub in s
Occ(sub, s) ==
    Cardinality({i \in 1..(Len(s) - Len(sub) + 1) : SubSeq(s, i, i + Len(sub) - 1) = sub})

RECURSIVE Spaces(_)
Spaces(n) == IF n <= 0 THEN "" ELSE " " \o Spaces(n - 1)

RECURSIVE Digits(_)
Digits(n) ==
    IF n < 10 THEN SubSeq("0123456789", n + 1, n + 1)
    ELSE Digits(n \div 10) \o SubSeq("0123456789", (n % 10) + 1, (n % 10) + 1)

\* strconv.Itoa: the decimal representation, with a sign for negatives
Itoa(n) == IF n < 0 THEN "-" \o Digits(-n) ELSE Digits(n)

(***************************************************************************)
(* The options struct and the values flags.Parse can give its fields.      *)
(***************************************************************************)
FieldNames ==
    << "GitHubAPIURI", "Created", "Pushed", "Fork", "Forks", "InName",
       "InDescription", "InReadme", "Language", "License", "Org", "Username",
       "Size", "Stars", "Topic", "Archived", "Sort", "Order", "Keyword" >>

FieldSet == {FieldNames[i] : i \in 1..Len(FieldNames)}

\* the value of a field when its option is not given (struct tags `default`,
\* else Go's zero value)
Default(f) ==
    CASE f = "GitHubAPIURI" -> "https://api.github.com/search"
      [] f = "Forks" -> -1
      [] f \in {"Size", "Stars"} -> 0
      [] f \in {"InName", "InDescription", "InReadme", "Archived"} -> FALSE
      [] OTHER -> ""

\* the other values considered for a field; `choice` tags limit Fork, Sort, Order
Supplied(f) ==
    CASE f = "GitHubAPIURI" -> {"http://h"}
      [] f = "Created" -> {">1"}
      [] f = "Pushed" -> {"2"}
      [] f = "Fork" -> {"only"}
      [] f = "Forks" -> {0, 12}
      [] f \in {"InName", "InDescription", "InReadme", "Archived"} -> {TRUE}
      [] f = "Language" -> {"Go"}
      [] f = "License" -> {"mit"}
      [] f = "Org" -> {"o"}
      [] f = "Username" -> {"u"}
      [] f = "Size" -> {-3, 4}
      [] f = "Stars" -> {100}
      [] f = "Topic" -> {"in:x"}
      [] f = "Sort" -> {"stars", "updated"}
      [] f = "Order" -> {"desc"}
      [] f = "Keyword" -> {"go", "q=+"}

RECURSIVE Choices(_, _)
\* value lists for fields i.. with at most n of them non-default
Choices(i, n) ==
    IF i > Len(FieldNames) THEN {<< >>}
    ELSE LET f == FieldNames[i] IN
         {<<Default(f)>> \o t : t \in Choices(i + 1, n)}
         \cup (IF n = 0 THEN {}
               ELSE {<<v>> \o t : v \in Supplied(f), t \in Choices(i + 1, n - 1)})

FieldIndex(f) == CHOOSE i \in 1..Len(FieldNames) : FieldNames[i] = f

MkOptions(s) == [f \in FieldSet |-> s[FieldIndex(f)]]

\* `var opts options`
ZeroOptions ==
    [f \in FieldSet |->
        CASE f \in {"Forks", "Size", "Stars"} -> 0
          [] f \in {"InName", "InDescription", "InReadme", "Archived"} -> FALSE
          [] OTHER -> ""]

\* what flags.Parse can leave in opts in a run of exec
ArgsOptions == {MkOptions(s) : s \in Choices(1, MaxArgs)}

\* the receivers queryString is called on; it does not read GitHubAPIURI
CallOptions ==
    {MkOptions(<<Default("GitHubAPIURI")>> \o s) : s \in Choices(2, MaxSupplied)}

(***************************************************************************)
(* queryString (main.go 98-179).                                           *)
(***************************************************************************)
EmptyMap == [k \in {} |-> ""]

Put(m, k, v) == [x \in (DOMAIN m) \cup {k} |-> IF x = k THEN v ELSE m[x]]

PutIfSet(m, k, v) == IF v # "" THEN Put(m, k, v) ELSE m

\* mutant: zero forks treated as unset, like size and stars
putForks_Positive(m, o) == IF o.Forks > 0 THEN Put(m, "forks", Itoa(o.Forks)) ELSE m

putForks(m, o) == IF o.Forks >= 0 THEN Put(m, "forks", Itoa(o.Forks)) ELSE m

\* mutant: a later location flag overwrites the entry instead of extending it
putIn_Overwrite(m, o) ==
    LET a == IF o.InName THEN Put(m, "in", "name") ELSE m
        b == IF o.InDescription THEN Put(a, "in", "description") ELSE a
    IN  IF o.InReadme THEN Put(b, "in", "readme") ELSE b

putIn(m, o) ==
    LET a == IF o.InName THEN Put(m, "in", "name") ELSE m
        b == IF o.InDescription
             THEN IF "in" \in DOMAIN a THEN Put(a, "in", a["in"] \o ",description")
                  ELSE Put(a, "in", "description")
             ELSE a
    IN  IF o.InReadme
        THEN IF "in" \in DOMAIN b THEN Put(b, "in", b["in"] \o ",readme")
             ELSE Put(b, "in", "readme")
        ELSE b

putSize(m, o) == IF o.Size > 0 THEN Put(m, "size", Itoa(o.Size)) ELSE m

putStars(m, o) == IF o.Stars > 0 THEN Put(m, "stars", Itoa(o.Stars)) ELSE m

putArchived(m, o) == IF o.Archived THEN Put(m, "archived", "true") ELSE m

\* the map `vals` when the range loop starts
buildVals(o) ==
    LET m1 == PutIfSet(EmptyMap, "created", o.Created)
        m2 == PutIfSet(m1, "pushed", o.Pushed)
        m3 == PutIfSet(m2, "fork", o.Fork)
        m4 == putForks(m3, o)
        m5 == putIn(m4, o)
        m6 == PutIfSet(m5, "language", o.Language)
        m7 == PutIfSet(m6, "license", o.License)
        m8 == PutIfSet(m7, "org", o.Org)
        m9 == PutIfSet(m8, "user", o.Username)
        m10 == putSize(m9, o)
        m11 == putStars(m10, o)
        m12 == PutIfSet(m11, "topic", o.Topic)
    IN  putArchived(m12, o)

\* mutant: `q=` written only for a keyword, not for filters alone
writePrefix_KeywordOnly(o, vals) ==
    IF o.Keyword # "" THEN [buf |-> "q=" \o o.Keyword, isFirst |-> FALSE]
    ELSE [buf |-> "", isFirst |-> TRUE]

\* buf and isFirst when the range loop starts
writePrefix(o, vals) ==
    LET b0 == IF o.Keyword # "" \/ Cardinality(DOMAIN vals) # 0 THEN "q=" ELSE ""
    IN  IF o.Keyword # "" THEN [buf |-> b0 \o o.Keyword, isFirst |-> FALSE]
        ELSE [buf |-> b0, isFirst |-> TRUE]

\* mutant: the separator written without looking at isFirst
writeTerm_AlwaysPlus(st, k, v) ==
    [buf |-> st.buf \o "+" \o k \o ":" \o v, isFirst |-> FALSE]

\* one iteration of `for k, v := range vals`
writeTerm(st, k, v) ==
    [buf |-> (IF ~st.isFirst THEN st.buf \o "+" ELSE st.buf) \o k \o ":" \o v,
     isFirst |-> FALSE]

RECURSIVE rangeFrom(_, _, _, _)
rangeFrom(st, vals, order, i) ==
    IF i > Len(order) THEN st
    ELSE rangeFrom(writeTerm(st, order[i], vals[order[i]]), vals, order, i + 1)

\* mutant: the loop left after its first iteration
writeTerms_BreakAfterFirst(st, vals, order) ==
    IF Len(order) = 0 THEN st ELSE writeTerm(st, order[1], vals[order[1]])

\* the range loop, visiting the keys in the given order
writeTerms(st, vals, order) == rangeFrom(st, vals, order, 1)

\* mutant: the order written whether or not a sort field is given
writeSort_OrderAlone(buf, o) ==
    LET b == IF o.Sort # ""
             THEN (IF Len(buf) # 0 THEN buf \o "&" ELSE buf) \o "sort=" \o o.Sort
             ELSE buf
    IN  IF o.Order # "" THEN b \o "&order=" \o o.Order ELSE b

writeSort(buf, o) ==
    IF o.Sort # ""
    THEN (IF Len(buf) # 0 THEN buf \o "&" ELSE buf)
         \o "sort=" \o o.Sort
         \o (IF o.Order # "" THEN "&order=" \o o.Order ELSE "")
    ELSE buf

\* the orders in which a range over m may visit its keys
RECURSIVE OrdersOf(_)
\* the sequences that list every element of S once
OrdersOf(S) ==
    IF S = {} THEN {<< >>}
    ELSE UNION {{<<k>> \o t : t \in OrdersOf(S \ {k})} : k \in S}

RangeOrders(m) == OrdersOf(DOMAIN m)

queryString(o, order) ==
    LET vals == buildVals(o)
            st == writeTerms(writePrefix(o, vals), vals, order)
    IN  writeSort(st.buf, o)

(***************************************************************************)
(* The result renderer: shortenLanguage (main.go 85-96), the lines exec    *)
(* writes into the tabwriter (70-76) and what Flush makes of them.         *)
(***************************************************************************)
shortenLanguage(lang) ==
    CASE lang = "Emacs Lisp" -> "elisp"
      [] lang = "JavaScript" -> "JS"
      [] lang = "CoffeeScript" -> "Coffee"
      [] OTHER -> lang

\* mutant: the language prefix written whatever the Language option
itemText_AlwaysPrefix(o, item) ==
    "[" \o shortenLanguage(item.Language) \o "]" \o "\t"
    \o item.FullName \o "\t" \o item.Description \o "\n"

\* the text one iteration of the range over r.Items writes to w
itemText(o, item) ==
    (IF o.Language = "" THEN "[" \o shortenLanguage(item.Language) \o "]" \o "\t" ELSE "")
    \o item.FullName \o "\t" \o item.Description \o "\n"

\* tabwriter.NewWriter(os.Stdout, 0, 0, 1, ' ', 0): minwidth, padding
TabMinWidth == 0
TabPadding == 1

FirstIndex(s, c) ==
    LET hits == {i \in 1..Len(s) : SubSeq(s, i, i) = c}
    IN  IF hits = {} THEN 0 ELSE CHOOSE i \in hits : \A j \in hits : i <= j

RECURSIVE Split(_, _)
\* the pieces of s between occurrences of the character c
Split(s, c) ==
    LET i == FirstIndex(s, c)
    IN  IF i = 0 THEN <<s>>
        ELSE <<SubSeq(s, 1, i - 1)>> \o Split(SubSeq(s, i + 1, Len(s)), c)

MaxOf(S) == CHOOSE x \in S : \A y \in S : y <= x

RECURSIVE Concat(_)
Concat(ss) == IF ss = << >> THEN "" ELSE Head(ss) \o Concat(Tail(ss))

\* What Flush writes for the buffered text: every tab-terminated cell is
\* padded with spaces to the width of its column (the widest cell of the
\* column plus the padding); the text after a line's last tab is written
\* as it is.  Lines are newline-terminated; text after the last newline
\* is written unterminated.
tabwrite(text) ==
    LET pieces == Split(text, "\n")
        lines == [i \in 1..Len(pieces) |-> Split(pieces[i], "\t")]
        width(j) == MaxOf({TabMinWidth}
                          \cup {Len(lines[i][j]) + TabPadding :
                                   i \in {k \in 1..Len(lines) : Len(lines[k]) > j}})
        cell(i, j) == IF j < Len(lines[i])
                      THEN lines[i][j] \o Spaces(width(j) - Len(lines[i][j]))
                      ELSE lines[i][j]
        line(i) == Concat([j \in 1..Len(lines[i]) |-> cell(i, j)])
                   \o (IF i < Len(pieces) THEN "\n" ELSE "")
    IN  Concat([i \in 1..Len(pieces) |-> line(i)])

\* printErr (main.go 81-83)
printErr(msg, err) == msg \o ": " \o err \o "\n"

(***************************************************************************)
(* What the environment can answer.                                        *)
(***************************************************************************)
ParseErrors == {"unknown flag `x'"}

GetErrors == {"dial tcp: connection refused"}

DecodeErrors == {"invalid character '<' looking for beginning of value"}

Items ==
    { [Language |-> "JavaScript", FullName |-> "a/b", Description |-> "x y"],
      [Language |-> "", FullName |-> "cc/d", Description |-> ""],
      [Language |-> "Emacs Lisp", FullName |-> "e/ffff", Description |-> "z"],
      [Language |-> "CoffeeScript", FullName |-> "g/h", Description |-> ""],
      [Language |-> "Go", FullName |-> "i/j", Description |-> "w"] }

ItemSeqs == UNION {[1..n -> Items] : n \in 0..MaxItems}

(***************************************************************************)
(* exec (main.go 50-79).  What flags.Parse itself prints is not part of    *)
(* the model: stdout and stderr hold what exec writes.                     *)
(***************************************************************************)
Init ==
    /\ pc = "parse"
    /\ opts = ZeroOptions
    /\ requests = << >>
    /\ body = "none"
    /\ r = << >>
    /\ idx = 0
    /\ w = ""
    /\ stdout = ""
    /\ stderr = ""
    /\ exit = << >>
    /\ out = ""

return(status) == pc' = "exit" /\ exit' = <<status>>

\* flags.Parse fills opts
ParseOk ==
    /\ pc = "parse"
    /\ opts' \in ArgsOptions
    /\ pc' = "request"
    /\ UNCHANGED <<requests, body, r, idx, w, stdout, stderr, exit, out>>

\* flags.Parse returns ErrHelp
ParseHelp ==
    /\ pc = "parse"
    /\ return(0)
    /\ UNCHANGED <<opts, requests, body, r, idx, w, stdout, stderr, out>>

\* mutant: the `return 1` after the diagnostic missing
ParseError_KeepsGoing ==
    /\ pc = "parse"
    /\ \E err \in ParseErrors : stderr' = stderr \o printErr("error in parsing options", err)
    /\ pc' = "request"
    /\ UNCHANGED <<opts, requests, body, r, idx, w, stdout, exit, out>>

\* flags.Parse returns another error
ParseError ==
    /\ pc = "parse"
    /\ \E err \in ParseErrors : stderr' = stderr \o printErr("error in parsing options", err)
    /\ return(1)
    /\ UNCHANGED <<opts, requests, body, r, idx, w, stdout, out>>

\* the URI of line 59, for one order of the range inside queryString
requestURI(o, order) == o.GitHubAPIURI \o "/repositories?" \o queryString(o, order)

\* http.Get returns an error
GetFails ==
    /\ pc = "request"
    /\ \E order \in RangeOrders(buildVals(opts)) :
          requests' = Append(requests, requestURI(opts, order))
    /\ \E err \in GetErrors : stderr' = stderr \o printErr("error in requesting", err)
    /\ return(1)
    /\ UNCHANGED <<opts, body, r, idx, w, stdout, out>>

\* http.Get returns a response
GetOk ==
    /\ pc = "request"
    /\ \E order \in RangeOrders(buildVals(opts)) :
          requests' = Append(requests, requestURI(opts, order))
    /\ body' = "open"
    /\ pc' = "decode"
    /\ UNCHANGED <<opts, r, idx, w, stdout, stderr, exit, out>>

\* mutant: the `return 1` after the diagnostic missing, what was decoded is rendered
DecodeFails_KeepsGoing ==
    /\ pc = "decode"
    /\ \E err \in DecodeErrors : stderr' = stderr \o printErr("error in parsing reponse", err)
    /\ r' \in ItemSeqs
    /\ idx' = 1
    /\ w' = ""
    /\ pc' = "render"
    /\ UNCHANGED <<opts, requests, body, stdout, exit, out>>

\* Decode returns an error
DecodeFails ==
    /\ pc = "decode"
    /\ \E err \in DecodeErrors : stderr' = stderr \o printErr("error in parsing reponse", err)
    /\ return(1)
    /\ UNCHANGED <<opts, requests, body, r, idx, w, stdout, out>>

\* Decode fills r; the tabwriter is created
DecodeOk ==
    /\ pc = "decode"
    /\ r' \in ItemSeqs
    /\ idx' = 1
    /\ w' = ""
    /\ pc' = "render"
    /\ UNCHANGED <<opts, requests, body, stdout, stderr, exit, out>>

\* one iteration of the range over r.Items
RenderItem ==
    /\ pc = "render"
    /\ idx <= Len(r)
    /\ w' = w \o itemText(opts, r[idx])
    /\ idx' = idx + 1
    /\ UNCHANGED <<pc, opts, requests, body, r, stdout, stderr, exit, out>>

\* w.Flush() and return 0
Flush ==
    /\ pc = "render"
    /\ idx > Len(r)
    /\ stdout' = stdout \o tabwrite(w)
    /\ w' = ""
    /\ return(0)
    /\ UNCHANGED <<opts, requests, body, r, idx, stderr, out>>

Next ==
    \/ ParseOk
    \/ ParseHelp
    \/ ParseError
    \/ GetFails
    \/ GetOk
    \/ DecodeFails
    \/ DecodeOk
    \/ RenderItem
    \/ Flush

Spec == Init /\ [][Next]_vars

(***************************************************************************)
(* queryString on its own: options are drawn, then the function is called  *)
(* on them twice.                                                          *)
(***************************************************************************)
QueryInit ==
    /\ pc = "call"
    /\ opts \in CallOptions
    /\ requests = << >>
    /\ body = "none"
    /\ r = << >>
    /\ idx = 0
    /\ w = ""
    /\ stdout = ""
    /\ stderr = ""
    /\ exit = << >>
    /\ out = ""

Call ==
    /\ pc = "call"
    /\ \E order \in RangeOrders(buildVals(opts)) : out' = queryString(opts, order)
    /\ pc' = "recall"
    /\ UNCHANGED <<opts, requests, body, r, idx, w, stdout, stderr, exit>>

\* the same call once more, on the same options
Recall ==
    /\ pc = "recall"
    /\ \E order \in RangeOrders(buildVals(opts)) : out' = queryString(opts, order)
    /\ pc' = "returned"
    /\ UNCHANGED <<opts, requests, body, r, idx, w, stdout, stderr, exit>>

QueryNext == Call \/ Recall

QuerySpec == QueryInit /\ [][QueryNext]_vars

(***************************************************************************)
(* Vocabulary of the properties, stated from the options alone.            *)
(***************************************************************************)
\* the filters whose value is meaningful: non-empty string, true flag,
\* forks >= 0, size > 0, stars > 0
MeaningfulKeys(o) ==
    {k \in {"created"} : o.Created # ""}
    \cup {k \in {"pushed"} : o.Pushed # ""}
    \cup {k \in {"fork"} : o.Fork # ""}
    \cup {k \in {"forks"} : o.Forks >= 0}
    \cup {k \in {"in"} : o.InName \/ o.InDescription \/ o.InReadme}
    \cup {k \in {"language"} : o.Language # ""}
    \cup {k \in {"license"} : o.License # ""}
    \cup {k \in {"org"} : o.Org # ""}
    \cup {k \in {"user"} : o.Username # ""}
    \cup {k \in {"size"} : o.Size > 0}
    \cup {k \in {"stars"} : o.Stars > 0}
    \cup {k \in {"topic"} : o.Topic # ""}
    \cup {k \in {"archived"} : o.Archived}

HasQuery(o) == o.Keyword # "" \/ MeaningfulKeys(o) # {}

\* the comma-join of the set location flags, in the order name, description, readme
ExpectedIn(o) ==
    CASE o.InName /\ o.InDescription /\ o.InReadme -> "name,description,readme"
      [] o.InName /\ o.InDescription /\ ~o.InReadme -> "name,description"
      [] o.InName /\ ~o.InDescription /\ o.InReadme -> "name,readme"
      [] o.InName /\ ~o.InDescription /\ ~o.InReadme -> "name"
      [] ~o.InName /\ o.InDescription /\ o.InReadme -> "description,readme"
      [] ~o.InName /\ o.InDescription /\ ~o.InReadme -> "description"
      [] ~o.InName /\ ~o.InDescription /\ o.InReadme -> "readme"
      [] OTHER -> ""

ExpectedValue(k, o) ==
    CASE k = "created" -> o.Created
      [] k = "pushed" -> o.Pushed
      [] k = "fork" -> o.Fork
      [] k = "forks" -> Itoa(o.Forks)
      [] k = "in" -> ExpectedIn(o)
      [] k = "language" -> o.Language
      [] k = "license" -> o.License
      [] k = "org" -> o.Org
      [] k = "user" -> o.Username
      [] k = "size" -> Itoa(o.Size)
      [] k = "stars" -> Itoa(o.Stars)
      [] k = "topic" -> o.Topic
      [] k = "archived" -> "true"

ExpectedTerm(k, o) == k \o ":" \o ExpectedValue(k, o)

\* the strings of the options that queryString copies verbatim into the q= segment
UserStrings(o) ==
    <<o.Keyword, o.Created, o.Pushed, o.Fork, o.Language, o.License, o.Org,
      o.Username, o.Topic>>

RECURSIVE SumOcc(_, _, _)
SumOcc(sub, ss, i) == IF i > Len(ss) THEN 0 ELSE Occ(sub, ss[i]) + SumOcc(sub, ss, i + 1)

\* occurrences of sub that the option values themselves carry into the output
UserOcc(sub, o) == SumOcc(sub, UserStrings(o), 1)

\* term stands in s as a whole `+`-separated element of the q= segment
HasTerm(s, term) ==
    \E i \in 2..(Len(s) - Len(term) + 1) :
        /\ SubSeq(s, i - 1, i - 1) \in {"=", "+"}
        /\ SubSeq(s, i, i + Len(term) - 1) = term
        /\ \/ i + Len(term) - 1 = Len(s)
           \/ SubSeq(s, i + Len(term), i + Len(term)) \in {"+", "&"}

RECURSIVE Perms(_)
\* the arrangements of the elements of S in a row
Perms(S) ==
    IF S = {} THEN {<< >>}
    ELSE UNION {{Append(p, x) : p \in Perms(S \ {x})} : x \in S}

RECURSIVE PlusJoin(_)
PlusJoin(ts) ==
    IF ts = << >> THEN ""
    ELSE IF Len(ts) = 1 THEN ts[1]
    ELSE ts[1] \o "+" \o PlusJoin(Tail(ts))

\* the q= segments the options allow: keyword first, then the terms in some order
ExpectedQ(o) ==
    IF ~HasQuery(o) THEN {""}
    ELSE {"q=" \o PlusJoin((IF o.Keyword # "" THEN <<o.Keyword>> ELSE << >>)
                           \o [i \in 1..Len(p) |-> ExpectedTerm(p[i], o)]) :
            p \in Perms(MeaningfulKeys(o))}

\* the sort/order segment the options ask for
ExpectedSort(o) ==
    IF o.Sort = "" THEN ""
    ELSE (IF HasQuery(o) THEN "&" ELSE "") \o "sort=" \o o.Sort
         \o (IF o.Order # "" THEN "&order=" \o o.Order ELSE "")

Returned == pc \in {"recall", "returned"}

(***************************************************************************)
(* Properties of queryString (checked under QuerySpec).                    *)
(***************************************************************************)

\* C1: the returned string starts with the prefix `q=` iff the keyword is
\* non-empty or a filter is meaningful, and the prefix is written once: every
\* further `q=` in the string is one the option values carry themselves;
\* without keyword and meaningful filter the string holds no `q=` at all.
C1_QPrefixIffQuery ==
    Returned =>
        /\ StartsWith(out, "q=") <=> HasQuery(opts)
        /\ HasQuery(opts) => Occ("q=", out) = 1 + UserOcc("q=", opts)
        /\ ~HasQuery(opts) => Occ("q=", out) = 0

C1_Witness ==
    /\ Returned
    /\ opts.Keyword = "" /\ opts.Stars = 100 /\ opts.Sort = "stars"
    /\ out = "q=stars:100&sort=stars"

\* C2: the three location flags yield at most one `in:` term: none when no
\* flag is set, else one term whose value is the comma-join of the set flags
\* in the order name, description, readme.
C2_SingleInTerm ==
    Returned =>
        LET any == opts.InName \/ opts.InDescription \/ opts.InReadme
            vals == buildVals(opts)
        IN  /\ ("in" \in DOMAIN vals) <=> any
            /\ any => vals["in"] = ExpectedIn(opts)
            /\ any => HasTerm(out, "in:" \o ExpectedIn(opts))
            /\ Occ("in:", out) = (IF any THEN 1 ELSE 0) + UserOcc("in:", opts)

C2_Witness ==
    /\ Returned
    /\ opts.InName /\ opts.InDescription /\ opts.InReadme
    /\ out = "q=in:name,description,readme"

\* C3: no `order=` without a sort (an Order alone changes nothing); with a
\* sort the string ends with `sort=<Sort>`, followed by `&order=<Order>` iff
\* Order is non-empty, and `sort=` is preceded by `&` iff a q= segment was
\* emitted, else it begins the string.
C3_SortOrder ==
    Returned =>
        /\ EndsWith(out, ExpectedSort(opts))
        /\ ~HasQuery(opts) => out = ExpectedSort(opts)
        /\ HasQuery(opts) =>
              /\ StartsWith(out, "q=")
              /\ Len(out) >= Len(ExpectedSort(opts)) + 3
        /\ Occ("sort=", out) = (IF opts.Sort # "" THEN 1 ELSE 0) + UserOcc("sort=", opts)
        /\ Occ("order=", out) =
              (IF opts.Sort # "" /\ opts.Order # "" THEN 1 ELSE 0) + UserOcc("order=", opts)
        /\ Occ("&", out) = Occ("&", ExpectedSort(opts)) + UserOcc("&", opts)

C3_Witness ==
    /\ Returned
    /\ opts.Sort = "" /\ opts.Order = "desc" /\ opts.Keyword = "go"
    /\ out = "q=go"

\* C4: `forks:<n>` is emitted iff Forks >= 0, `size:<n>` iff Size > 0 and
\* `stars:<n>` iff Stars > 0, <n> being the decimal value.
C4_IntegerFilters ==
    Returned =>
        /\ Occ("forks:", out) = (IF opts.Forks >= 0 THEN 1 ELSE 0) + UserOcc("forks:", opts)
        /\ Occ("size:", out) = (IF opts.Size > 0 THEN 1 ELSE 0) + UserOcc("size:", opts)
        /\ Occ("stars:", out) = (IF opts.Stars > 0 THEN 1 ELSE 0) + UserOcc("stars:", opts)
        /\ opts.Forks >= 0 => HasTerm(out, "forks:" \o Itoa(opts.Forks))
        /\ opts.Size > 0 => HasTerm(out, "size:" \o Itoa(opts.Size))
        /\ opts.Stars > 0 => HasTerm(out, "stars:" \o Itoa(opts.Stars))

C4_Witness ==
    /\ Returned
    /\ opts.Forks = 0 /\ opts.Size = -3 /\ opts.Stars = 0
    /\ out = "q=forks:0"

\* C5: the q= segment is the keyword (first, when non-empty) followed by one
\* `name:value` term with a non-empty value per meaningful filter and none
\* for the others, the elements separated by exactly one `+`; what follows
\* the segment is nothing or the sort parameters.
C5_QSegment ==
    Returned =>
        /\ \A k \in MeaningfulKeys(opts) : ExpectedValue(k, opts) # ""
        /\ \E q \in ExpectedQ(opts) :
              /\ StartsWith(out, q)
              /\ LET rest == SubSeq(out, Len(q) + 1, Len(out))
                 IN  \/ rest = ""
                     \/ q # "" /\ StartsWith(rest, "&sort=")
                     \/ q = "" /\ StartsWith(rest, "sort=")

C5_Witness ==
    /\ Returned
    /\ opts.Keyword = "go" /\ opts.Language = "Go" /\ opts.Archived
    /\ out = "q=go+archived:true+language:Go"

\* C6 as stated: a further call on the same options returns the same string.
C6_Deterministic == [][(pc = "recall" /\ pc' = "returned") => out' = out]_vars

\* the head of the string up to and including the keyword
QHead(o) == IF HasQuery(o) THEN "q=" \o o.Keyword ELSE ""

SameUpToTermOrder(a, b, o) ==
    \/ a = b
    \/ /\ Cardinality(MeaningfulKeys(o)) >= 2
       /\ Len(a) = Len(b)
       /\ StartsWith(a, QHead(o)) /\ StartsWith(b, QHead(o))
       /\ EndsWith(a, ExpectedSort(o)) /\ EndsWith(b, ExpectedSort(o))
       /\ \A k \in MeaningfulKeys(o) :
             HasTerm(a, ExpectedTerm(k, o)) /\ HasTerm(b, ExpectedTerm(k, o))

\* C6 amended: a further call on the same options returns a string with the
\* same length, q=keyword head, sort/order tail and filter terms;
\* only the order of the filter terms may differ, and with at most one
\* meaningful filter the strings are identical.
C6_SameUpToTermOrder ==
    [][(pc = "recall" /\ pc' = "returned") => SameUpToTermOrder(out, out', opts)]_vars

C6_Witness ==
    /\ pc = "returned"
    /\ opts.Created # "" /\ opts.Pushed # "" /\ opts.Keyword = "go"
    /\ out = "q=go+pushed:2+created:>1"

(***************************************************************************)
(* Properties of exec (checked under Spec).                                *)
(***************************************************************************)
Exited == pc = "exit"

\* flags.Parse filled opts (it always sets Forks to its default or to the
\* value given, so the struct differs from the zero value)
Parsed == pc # "parse" /\ opts # ZeroOptions

\* http.Get was called and gave no response
GetFailed == Exited /\ requests # << >> /\ body = "none"

\* a response was obtained and its body did not decode
DecodeFailed == Exited /\ body # "none" /\ idx = 0

OneLine(s) == Occ("\n", s) = 1 /\ EndsWith(s, "\n")

\* C7: when the GET fails or the body does not decode, exec returns 1 after
\* writing one diagnostic line to standard error, and nothing is written to
\* standard output in that run.
C7_FailureAborts ==
    /\ GetFailed =>
          /\ exit = <<1>> /\ stdout = "" /\ w = ""
          /\ OneLine(stderr) /\ StartsWith(stderr, "error in requesting: ")
    /\ DecodeFailed =>
          /\ exit = <<1>> /\ stdout = "" /\ w = ""
          /\ OneLine(stderr) /\ StartsWith(stderr, "error in parsing reponse: ")
    /\ stderr # "" => Exited /\ exit = <<1>> /\ stdout = "" /\ w = "" /\ OneLine(stderr)

C7_Witness ==
    /\ DecodeFailed
    /\ exit = <<1>>
    /\ stderr = "error in parsing reponse: invalid character '<' looking for beginning of value\n"

\* C8: a response body that was obtained is closed when exec has returned.
C8_BodyClosedOnReturn == (Exited /\ body # "none") => body = "closed"

\* the display names of the languages, as the documentation lists them
ShortName(lang) ==
    CASE lang = "Emacs Lisp" -> "elisp"
      [] lang = "JavaScript" -> "JS"
      [] lang = "CoffeeScript" -> "Coffee"
      [] lang = "Go" -> "Go"
      [] lang = "" -> ""

\* line is: the prefix (if any), the full name and the description of item,
\* with a column separator (padding of at least one space) between them
IsRowOf(line, item, prefixed) ==
    \E n1, n2 \in 1..(Len(line) + 1) :
        line = (IF prefixed
                THEN "[" \o ShortName(item.Language) \o "]" \o Spaces(n1)
                ELSE "")
               \o item.FullName \o Spaces(n2) \o item.Description

\* C9: after a successful decode exec writes one line per item, in response
\* order; the line starts with `[<shortened language>]` and a column
\* separator iff the Language option is empty, and continues with the full
\* name, a column separator and the description.
C9_Rows ==
    (Exited /\ body # "none" /\ idx >= 1) =>
        LET lines == Split(stdout, "\n")
        IN  /\ exit = <<0>>
            /\ Len(lines) = Len(r) + 1
            /\ lines[Len(lines)] = ""
            /\ \A i \in 1..Len(r) :
                  /\ IsRowOf(lines[i], r[i], opts.Language = "")
                  /\ opts.Language # "" => ~StartsWith(lines[i], "[")
            /\ \A i \in 1..Len(r) : shortenLanguage(r[i].Language) = ShortName(r[i].Language)

C9_Witness ==
    /\ Exited /\ exit = <<0>>
    /\ opts.Language = ""
    /\ Len(r) = 2 /\ r[1].Language = "Emacs Lisp" /\ r[2].Language = ""
    /\ stdout = "[elisp] e/ffff z\n[]      cc/d   \n"

\* C10: exec issues at most one request: none before parsing has succeeded,
\* none at all after a help request (status 0) or a parse error (a
\* diagnostic, status 1), and exactly one GET of
\* <base-uri>/repositories?<queryString()> once parsing has succeeded, made
\* before anything is rendered.
C10_OneRequest ==
    /\ Len(requests) <= 1
    /\ pc = "parse" => requests = << >>
    /\ (pc # "parse" /\ ~Parsed) =>
          /\ Exited /\ requests = << >> /\ stdout = "" /\ body = "none"
          /\ \/ exit = <<0>> /\ stderr = ""
             \/ /\ exit = <<1>> /\ OneLine(stderr)
                /\ StartsWith(stderr, "error in parsing options: ")
    /\ (Parsed /\ pc = "request") => requests = << >>
    /\ (Parsed /\ pc # "request") =>
          /\ Len(requests) = 1
          /\ requests[1] \in {opts.GitHubAPIURI \o "/repositories?" \o queryString(opts, ord) :
                                ord \in RangeOrders(buildVals(opts))}
    /\ (w # "" \/ stdout # "" \/ body # "none" \/ r # << >>) => Len(requests) = 1

C10_Witness ==
    /\ Exited /\ exit = <<0>>
    /\ opts.Stars = 100
    /\ requests = << "https://api.github.com/search/repositories?q=stars:100" >>
    /\ stdout # ""

====
